---- MODULE Spec2Model ----
(***************************************************************************)
(* Cache-aside product API (src/api/index.js): an Express application that *)
(* reads products from a PostgreSQL replica through a Redis cache and      *)
(* writes them to the primary, invalidating the cache key on update.       *)
(*                                                                         *)
(* Every handler is an async function; it is modelled as a pipeline of     *)
(* atomic steps, one per suspension point (await).  A step named ...IO is  *)
(* the moment the external store executes the call; the code that runs     *)
(* when the awaited promise settles and that reads shared state (the       *)
(* redisReady flag) is a step of its own.                                  *)
(***************************************************************************)
EXTENDS Integers, Sequences, FiniteSets, TLC

\* ---------------------------------------------------------------- bounds
NReq == 2            \* request slots: requests that can be in flight together
MaxRequests == 2     \* requests received in one run

\* ------------------------------------------------------------- constants
CACHE_TTL_SECONDS == 60

Req == 1..NReq

VARIABLES
    redisReady,   \* the liveness flag (let redisReady)
    listening,    \* app.listen has been called
    cache,        \* Redis content: key -> [value, EX]
    primary,      \* products table on the primary: id -> row
    held,         \* history: every row the primary has held
    replica,      \* products table on the replica: id -> row
    wal,          \* committed rows not yet applied by the replica
    nextId,       \* the serial of products.id
    now,          \* logical NOW() of the primary
    started,      \* requests received so far
    req,          \* per slot: the handler's locals, position and response
    obs,          \* per slot: history of what the request did and saw
    out,          \* the response sent by the last step, with its request's history
    lastPut       \* history: the update that has just succeeded on its own,
                  \* no request having been received since

vars == <<redisReady, listening, cache, primary, held, replica, wal,
          nextId, now, started, req, obs, out, lastPut>>

\* ------------------------------------------------------------- JS values
Undefined == [t |-> "undefined", s |-> "", n |-> 0]
Str(s) == [t |-> "string", s |-> s, n |-> 0]
Num(n) == [t |-> "number", s |-> "", n |-> n]
\* a number with a fractional part, e.g. 1.5 is Frac(1, ".5")
Frac(n, f) == [t |-> "number", s |-> f, n |-> n]
NaN == [t |-> "number", s |-> "NaN", n |-> 0]
Date(n) == [t |-> "Date", s |-> "", n |-> n]
Bool(b) == [t |-> "boolean", s |-> IF b THEN "true" ELSE "false", n |-> 0]

\* !v is false
Truthy(v) ==
    CASE v.t = "undefined" -> FALSE
      [] v.t = "string" -> v.s # ""
      [] v.t = "number" -> ~(v.s = "NaN") /\ ~(v.s = "" /\ v.n = 0)
      [] OTHER -> TRUE

\* the check rejects everything but positive integers
NumberIsFinite_Positive(v) == v.t = "number" /\ v.s = "" /\ v.n > 0

NumberIsFinite(v) == v.t = "number" /\ v.s # "NaN"

NumberIsInteger(v) == v.t = "number" /\ v.s = ""

\* ---------------------------------------------------------------- parseInt
Digits == {"0", "1", "2", "3", "4", "5", "6", "7", "8", "9"}

DigitVal(c) ==
    CASE c = "0" -> 0 [] c = "1" -> 1 [] c = "2" -> 2 [] c = "3" -> 3
      [] c = "4" -> 4 [] c = "5" -> 5 [] c = "6" -> 6 [] c = "7" -> 7
      [] c = "8" -> 8 [] c = "9" -> 9

RECURSIVE SkipSpace(_)
SkipSpace(cs) ==
    IF cs # <<>> /\ Head(cs) = " " THEN SkipSpace(Tail(cs)) ELSE cs

\* the value of the longest prefix of digits of cs, acc the value so far
RECURSIVE DigitRun(_, _)
DigitRun(cs, acc) ==
    IF cs # <<>> /\ Head(cs) \in Digits
    THEN DigitRun(Tail(cs), 10 * acc + DigitVal(Head(cs)))
    ELSE acc

\* parseInt(cs, 10) of a string given as its sequence of characters
ParseInt(cs) ==
    LET a == SkipSpace(cs)
        neg == a # <<>> /\ Head(a) = "-"
        b == IF a # <<>> /\ Head(a) \in {"-", "+"} THEN Tail(a) ELSE a
    IN  IF b = <<>> \/ Head(b) \notin Digits
        THEN NaN
        ELSE Num(IF neg THEN 0 - DigitRun(b, 0) ELSE DigitRun(b, 0))

\* `product:${id}`, the key of GET /products/:id
Key(id) == "product:" \o ToString(id.n)

\* the update deletes a key of another format
DelKey_Plural(id) == "products:" \o ToString(id.n)

\* `product:${id}`, the argument of cacheDel in PUT /products/:id
DelKey(id) == "product:" \o ToString(id.n)

\* -------------------------------------------------------------------- JSON
\* a pg row as the driver hands it to the handler
PgRow(row) ==
    [id |-> Num(row.id), name |-> Str(row.name),
     price_cents |-> Num(row.price_cents), updated_at |-> Date(row.updated_at)]

\* Date.prototype.toJSON: the ISO string of the instant
ToISOString(d) == Str("ts" \o ToString(d.n))

ToJSON(v) == IF v.t = "Date" THEN ToISOString(v) ELSE v

\* JSON.stringify of a row object: the members in column order
JSONStringify(o) ==
    << <<"id", ToJSON(o.id)>>, <<"name", ToJSON(o.name)>>,
       <<"price_cents", ToJSON(o.price_cents)>>,
       <<"updated_at", ToJSON(o.updated_at)>> >>

Member(text, k) == text[CHOOSE i \in DOMAIN text : text[i][1] = k][2]

\* JSON.parse of the text of a row object
JSONParse(text) ==
    [id |-> Member(text, "id"), name |-> Member(text, "name"),
     price_cents |-> Member(text, "price_cents"),
     updated_at |-> Member(text, "updated_at")]

ErrorBody(msg) == << <<"error", Str(msg)>> >>

\* ------------------------------------------------------------------- Redis
\* redis.get: the value under the key, or null
RedisGet(c, key) == IF key \in DOMAIN c THEN <<c[key].value>> ELSE <<>>

\* the entry is stored without expiry
RedisSet_NoExpiry(c, key, value, ttl) ==
    [k \in DOMAIN c \cup {key} |->
        IF k = key THEN [value |-> value, EX |-> 0] ELSE c[k]]

\* redis.set(key, value, {EX: ttl})
RedisSet(c, key, value, ttl) ==
    [k \in DOMAIN c \cup {key} |->
        IF k = key THEN [value |-> value, EX |-> ttl] ELSE c[k]]

\* the key is overwritten with an empty value instead of being deleted
RedisDel_SetEmpty(c, key) == RedisSet(c, key, <<>>, CACHE_TTL_SECONDS)

\* the delete leaves the entry in place
RedisDel_Noop(c, key) == c

\* redis.del(key)
RedisDel(c, key) == [k \in DOMAIN c \ {key} |-> c[k]]

\* ---------------------------------------------------------------- Postgres
\* the WHERE clause is missing: some row comes back, whatever its id
SelectById_AnyRow(table, id) ==
    IF DOMAIN table # {}
    THEN <<table[CHOOSE i \in DOMAIN table : TRUE]>>
    ELSE <<>>

\* SELECT * FROM products WHERE id = $1
SelectById(table, id) ==
    IF id \in DOMAIN table THEN <<table[id]>> ELSE <<>>

\* the rows of ids, by ascending id
RECURSIVE OrderById(_, _)
OrderById(table, ids) ==
    IF ids = {} THEN <<>>
    ELSE LET m == CHOOSE i \in ids : \A j \in ids : i <= j
         IN  <<table[m]>> \o OrderById(table, ids \ {m})

\* SELECT * FROM products ORDER BY id ASC
SelectAll(table) == OrderById(table, DOMAIN table)

Put(table, row) ==
    [i \in DOMAIN table \cup {row.id} |-> IF i = row.id THEN row ELSE table[i]]

\* -------------------------------------------------------------- responses
NoResp == [status |-> 0, xcache |-> "", body |-> <<>>]

Resp(status, xcache, body) ==
    [status |-> status, xcache |-> xcache, body |-> body]

RedisUnavailable == Resp(503, "", ErrorBody("Redis unavailable"))
InvalidId == Resp(400, "", ErrorBody("Invalid id"))
InvalidBody == Resp(400, "", ErrorBody("Expected { name, price_cents:int }"))
NotFound == Resp(404, "", ErrorBody("Not found"))

\* the answer of Express's default error handler to an error without status
InternalError ==
    Resp(500, "", << <<"pre", Str("Internal Server Error")>> >>)

\* ------------------------------------------------------------------ inputs
\* req.params.id, as sequences of characters
\* the seeded id, the id of the first row created, a negative number followed
\* by other text, no number
RawIds == { <<"1">>, <<"2">>, <<"-", "1", "a">>, <<"a">> }

\* req.body: the members name and price_cents
Body(name, price) == [name |-> name, price_cents |-> price]
Bodies ==
    { Body(Str("B"), Num(250)),
      Body(Str("A"), Frac(1, ".5")),
      Body(Undefined, Undefined) }

\* ------------------------------------------------------------------- state
\* a slot: the route, the position in its handler, req.params.id and the
\* handler's locals id, name, price_cents, cached and r.rows
IdleReq ==
    [kind |-> "", pc |-> "idle", raw |-> <<>>, id |-> NaN, name |-> Undefined,
     price |-> Undefined, cached |-> <<>>, rows |-> <<>>]

\* history of a request:
\*   io     the calls it has sent to Redis and to the executors
\*   live   redisReady when the request was received
\*   fault  the call that failed, and why: "flag" or "io" for a cache
\*          operation, "store" for an executor query
\*   after  of an update: the update itself, as long as no other request
\*          has been in flight with it; of a read: the update it directly
\*          follows, as long as both have run on their own and the replica
\*          had caught up when the read queried it
\*   race   for a read past its cache miss: an update of the same id has
\*          "committed", then "invalidated" the key
NoFault == [why |-> "", op |-> ""]

Fault(why, op) == [why |-> why, op |-> op]

NoObs ==
    [io |-> {}, live |-> FALSE, fault |-> NoFault,
     after |-> <<>>, race |-> ""]

NoOut ==
    [kind |-> "", raw |-> <<>>, body |-> Body(Undefined, Undefined),
     resp |-> NoResp, obs |-> NoObs]

InFlight(r) == req[r].pc # "idle"

\* a request is taken by the first slot that runs no handler
Free(r) == ~InFlight(r) /\ \A s \in Req : s < r => InFlight(s)

SeedRow == [id |-> 1, name |-> "A", price_cents |-> 100, updated_at |-> 0]

\* Redis outlives the process: it starts empty or still holds the seed row
SeedCache ==
    RedisSet(<<>>, Key(Num(SeedRow.id)), JSONStringify(PgRow(SeedRow)),
             CACHE_TTL_SECONDS)

Init ==
    /\ redisReady = FALSE
    /\ listening = FALSE
    /\ cache \in {<<>>, SeedCache}
    /\ primary = Put(<<>>, SeedRow)
    /\ held = {SeedRow}
    /\ replica = primary
    /\ nextId = 2
    /\ wal = <<>>
    /\ now = 1
    /\ started = 0
    /\ req = [r \in Req |-> IdleReq]
    /\ obs = [r \in Req |-> NoObs]
    /\ out = NoOut
    /\ lastPut = <<>>

\* ------------------------------------------------------------ environment
\* the flag is set once connect has been awaited, even if it failed
StartListening_AssumesReady ==
    /\ ~listening
    /\ listening' = TRUE
    /\ redisReady' = TRUE
    /\ UNCHANGED <<cache, primary, held, replica, wal,
                   nextId, now, started, req, obs, lastPut>>
    /\ out' = NoOut

\* the async start-up block: connect is awaited, its failure swallowed
StartListening ==
    /\ ~listening
    /\ listening' = TRUE
    /\ UNCHANGED <<redisReady, cache, primary, held, replica, wal,
                   nextId, now, started, req, obs, lastPut>>
    /\ out' = NoOut

\* redis.on("ready")
OnReady ==
    /\ ~redisReady
    /\ redisReady' = TRUE
    /\ UNCHANGED <<listening, cache, primary, held, replica, wal,
                   nextId, now, started, req, obs, lastPut>>
    /\ out' = NoOut

\* redis.on("end")
OnEnd ==
    /\ redisReady
    /\ redisReady' = FALSE
    /\ UNCHANGED <<listening, cache, primary, held, replica, wal,
                   nextId, now, started, req, obs, lastPut>>
    /\ out' = NoOut

\* redis.on("error")
OnError ==
    /\ redisReady
    /\ redisReady' = FALSE
    /\ UNCHANGED <<listening, cache, primary, held, replica, wal,
                   nextId, now, started, req, obs, lastPut>>
    /\ out' = NoOut

\* Redis drops an entry whose EX has run out
Expire(key) ==
    /\ key \in DOMAIN cache
    /\ cache[key].EX > 0
    /\ cache' = RedisDel(cache, key)
    /\ UNCHANGED <<redisReady, listening, primary, held, replica, wal,
                   nextId, now, started, req, obs, lastPut>>
    /\ out' = NoOut

\* streaming replication applies the next committed row on the replica
Replicate ==
    /\ wal # <<>>
    /\ replica' = Put(replica, Head(wal))
    /\ wal' = Tail(wal)
    /\ UNCHANGED <<redisReady, listening, cache, primary, held,
                   nextId, now, started, req, obs, lastPut>>
    /\ out' = NoOut

\* ---------------------------------------------------------------- helpers
\* the route does not look at the flag
EnsureRedis_Always == TRUE

\* ensureRedis(res): TRUE when the handler may go on
EnsureRedis == redisReady

\* cacheSet does not look at the flag
CacheSetReady_Unchecked == TRUE

\* if (!redisReady) throw, at the head of cacheGet, cacheSet and cacheDel
CacheGetReady == redisReady
CacheSetReady == redisReady
CacheDelReady == redisReady

\* the failure of the store is swallowed and the row returned
OnCacheSetError_FailOpen(row) == Resp(200, "MISS", JSONStringify(row))

\* the failure of the invalidation is swallowed and the row returned
OnCacheDelError_Swallow(row) == Resp(200, "", JSONStringify(row))

\* the catch blocks around cacheGet, cacheSet and cacheDel
OnCacheGetError == RedisUnavailable
OnCacheSetError(row) == RedisUnavailable
OnCacheDelError(row) == RedisUnavailable

\* the price is not looked at
BodyInvalid_NameOnly(name, price) == ~Truthy(name)

\* if (!name || !Number.isInteger(price_cents))
BodyInvalid(name, price) == ~Truthy(name) \/ ~NumberIsInteger(price)

\* the cached value is never used
CachedTruthy_Never(cached) == FALSE

\* if (cached): a non-null, non-empty string
CachedTruthy(cached) == cached # <<>> /\ cached[1] # <<>>

\* the empty result is not detected
NoRowReturned_Never(rows) == FALSE

\* if (r.rowCount === 0)
NoRowReturned(rows) == Len(rows) = 0

\* the reads go to the pool of the primary
QueryRead_WritePool == [call |-> "write.query", table |-> primary]

\* queryRead: the query is sent to readPool, whose server is the replica
QueryRead == [call |-> "read.query", table |-> replica]

\* the text value Postgres stores for a bound parameter
SqlText(v) == IF v.t = "string" THEN v.s ELSE ToString(v.n)

\* res.status(..).json(..) and return: the response goes out, the
\* handler's locals are gone; raw and body are the request's id and body,
\* o is its history
Send(r, kind, raw, body, resp, o) ==
    /\ req' = [req EXCEPT ![r] = IdleReq]
    /\ out' = [kind |-> kind, raw |-> raw, body |-> body,
               resp |-> resp, obs |-> o]

\* the response of the handler running in slot r
Reply(r, resp, o) ==
    Send(r, req[r].kind, req[r].raw, Body(req[r].name, req[r].price), resp, o)

\* the histories after slot r has taken a step that leaves it with mine
Step1(r, mine) == [obs EXCEPT ![r] = mine]

Issued(o, call) == [o EXCEPT !.io = @ \cup {call}]

Failed(o, why, op) == [o EXCEPT !.fault = Fault(why, op)]

\* a request is received in slot r: the history of r starts afresh, and no
\* other request runs on its own any more
Received(io, after) ==
    [NoObs EXCEPT !.io = io, !.live = redisReady, !.after = after]

\* the histories after a request is received in slot r
Arrival(r, mine) ==
    [s \in Req |-> IF s = r THEN mine ELSE [obs[s] EXCEPT !.after = <<>>]]

\* reads of id that have missed the cache and not yet stored their row
PastMiss(s, id) ==
    /\ req[s].kind = "get"
    /\ req[s].pc \in {"read.query", "read.done", "cache.set"}
    /\ req[s].id = id

\* -------------------------------------------------- GET /products/:id
\* the early return of the handler before its first await, if any
GetEarly(raw) ==
    IF ~EnsureRedis THEN <<RedisUnavailable>>
    ELSE IF ~NumberIsFinite(ParseInt(raw)) THEN <<InvalidId>>
    ELSE IF ~CacheGetReady THEN <<OnCacheGetError>>
    ELSE <<>>

\* the handler runs from the receipt of the request to its first await
GetReceive(r, raw) ==
    /\ listening /\ Free(r)
    /\ LET id == ParseInt(raw)
           early == GetEarly(raw)
           o == Received({}, IF lastPut # <<>> /\ id = lastPut[1].id
                             THEN lastPut ELSE <<>>)
       IN  IF early # <<>>
           THEN /\ Send(r, "get", raw, Body(Undefined, Undefined), early[1], o)
                /\ obs' = Arrival(r, NoObs)
           ELSE /\ req' = [req EXCEPT ![r] =
                            [IdleReq EXCEPT !.kind = "get", !.raw = raw,
                                            !.id = id, !.pc = "cache.get"]]
                /\ obs' = Arrival(r, Issued(o, "redis.get"))
                /\ out' = NoOut
    /\ lastPut' = <<>>
    /\ UNCHANGED <<redisReady, listening, cache, primary, held, replica,
                   wal, nextId, now>>

GetStart(r, raw) ==
    /\ started < MaxRequests
    /\ started' = started + 1
    /\ GetReceive(r, raw)

\* redis.get settles (ok) or fails; on a miss the replica query is sent
CacheGetIO(r, ok) ==
    /\ req[r].pc = "cache.get"
    /\ IF ~ok
       THEN /\ Reply(r, OnCacheGetError, Failed(obs[r], "io", "redis.get"))
            /\ obs' = Step1(r, NoObs)
       ELSE LET cached == RedisGet(cache, Key(req[r].id))
            IN  IF CachedTruthy(cached)
                THEN /\ Reply(r, Resp(200, "HIT",
                                   JSONStringify(JSONParse(cached[1]))),
                              obs[r])
                     /\ obs' = Step1(r, NoObs)
                ELSE /\ req' = [req EXCEPT ![r].cached = cached,
                                           ![r].pc = "read.query"]
                     /\ obs' = Step1(r, Issued(obs[r], QueryRead.call))
                     /\ out' = NoOut
    /\ UNCHANGED <<redisReady, listening, cache, primary, held, replica,
                   wal, nextId, now, started, lastPut>>

\* the replica executes SELECT * FROM products WHERE id = $1
QueryReadIO(r) ==
    /\ req[r].pc = "read.query"
    /\ LET rs == SelectById(QueryRead.table, req[r].id.n)
       IN  req' = [req EXCEPT
                ![r].rows = [i \in DOMAIN rs |-> PgRow(rs[i])],
                ![r].pc = "read.done"]
    /\ obs' = [obs EXCEPT ![r].after = IF wal = <<>> THEN @ ELSE <<>>]
    /\ UNCHANGED <<redisReady, listening, cache, primary, held, replica,
                   wal, nextId, now, started, lastPut>>
    /\ out' = NoOut

\* the read waits while an update of the same id is in flight
GetAfterRead_Locked(r) ==
    /\ req[r].pc = "read.done"
    /\ \A s \in Req : ~(req[s].kind = "put" /\ InFlight(s)
                          /\ req[s].id = req[r].id)
    /\ IF NoRowReturned(req[r].rows)
       THEN /\ Reply(r, NotFound, obs[r])
            /\ obs' = Step1(r, NoObs)
       ELSE IF ~CacheSetReady
       THEN /\ Reply(r, OnCacheSetError(req[r].rows[1]),
                     Failed(obs[r], "flag", "redis.set"))
            /\ obs' = Step1(r, NoObs)
       ELSE /\ req' = [req EXCEPT ![r].pc = "cache.set"]
            /\ obs' = Step1(r, Issued(obs[r], "redis.set"))
            /\ out' = NoOut
    /\ UNCHANGED <<redisReady, listening, cache, primary, held, replica,
                   wal, nextId, now, started, lastPut>>

\* the handler resumes with the rows: 404, or cacheSet is called
GetAfterRead(r) ==
    /\ req[r].pc = "read.done"
    /\ IF NoRowReturned(req[r].rows)
       THEN /\ Reply(r, NotFound, obs[r])
            /\ obs' = Step1(r, NoObs)
       ELSE IF ~CacheSetReady
       THEN /\ Reply(r, OnCacheSetError(req[r].rows[1]),
                     Failed(obs[r], "flag", "redis.set"))
            /\ obs' = Step1(r, NoObs)
       ELSE /\ req' = [req EXCEPT ![r].pc = "cache.set"]
            /\ obs' = Step1(r, Issued(obs[r], "redis.set"))
            /\ out' = NoOut
    /\ UNCHANGED <<redisReady, listening, cache, primary, held, replica,
                   wal, nextId, now, started, lastPut>>

\* redis.set settles (ok) or fails
CacheSetIO(r, ok) ==
    /\ req[r].pc = "cache.set"
    /\ IF ~ok
       THEN /\ Reply(r, OnCacheSetError(req[r].rows[1]),
                     Failed(obs[r], "io", "redis.set"))
            /\ cache' = cache
       ELSE /\ cache' = RedisSet(cache, Key(req[r].id),
                                 JSONStringify(req[r].rows[1]),
                                 CACHE_TTL_SECONDS)
            /\ Reply(r, Resp(200, "MISS", JSONStringify(req[r].rows[1])),
                     obs[r])
    /\ obs' = Step1(r, NoObs)
    /\ UNCHANGED <<redisReady, listening, primary, held, replica,
                   wal, nextId, now, started, lastPut>>

\* -------------------------------------------------- PUT /products/:id
\* the early return of the handler before its first await, if any
PutEarly(raw, body) ==
    IF ~EnsureRedis THEN <<RedisUnavailable>>
    ELSE IF ~NumberIsFinite(ParseInt(raw)) THEN <<InvalidId>>
    ELSE IF BodyInvalid(body.name, body.price_cents) THEN <<InvalidBody>>
    ELSE <<>>

PutStart(r, raw, body) ==
    /\ listening /\ Free(r)
    /\ started < MaxRequests
    /\ started' = started + 1
    /\ LET early == PutEarly(raw, body)
           o == Received({}, IF \A s \in Req : ~InFlight(s)
                             THEN <<[id |-> ParseInt(raw), name |-> body.name,
                                     price |-> body.price_cents]>>
                             ELSE <<>>)
       IN  IF early # <<>>
           THEN /\ Send(r, "put", raw, body, early[1], o)
                /\ obs' = Arrival(r, NoObs)
           ELSE /\ req' = [req EXCEPT ![r] =
                            [IdleReq EXCEPT !.kind = "put", !.raw = raw,
                                            !.id = ParseInt(raw),
                                            !.name = body.name,
                                            !.price = body.price_cents,
                                            !.pc = "write.query"]]
                /\ obs' = Arrival(r, Issued(o, "write.query"))
                /\ out' = NoOut
    /\ lastPut' = <<>>
    /\ UNCHANGED <<redisReady, listening, cache, primary, held, replica,
                   wal, nextId, now>>

\* the primary executes UPDATE products SET ... WHERE id=$3 RETURNING *
UpdateIO(r) ==
    /\ req[r].kind = "put" /\ req[r].pc = "write.query"
    /\ IF req[r].id.n \in DOMAIN primary
       THEN LET row == [id |-> req[r].id.n,
                        name |-> SqlText(req[r].name),
                        price_cents |-> req[r].price.n,
                        updated_at |-> now]
            IN  /\ primary' = Put(primary, row)
                /\ held' = held \cup {row}
                /\ wal' = Append(wal, row)
                /\ now' = now + 1
                /\ req' = [req EXCEPT ![r].rows = <<PgRow(row)>>,
                                      ![r].pc = "write.done"]
                /\ obs' = [s \in Req |->
                            IF PastMiss(s, req[r].id)
                            THEN [obs[s] EXCEPT !.race = "committed"]
                            ELSE obs[s]]
       ELSE /\ req' = [req EXCEPT ![r].rows = <<>>, ![r].pc = "write.done"]
            /\ UNCHANGED <<primary, held, wal, now, obs>>
    /\ UNCHANGED <<redisReady, listening, cache, replica,
                   nextId, started, lastPut>>
    /\ out' = NoOut

\* the handler resumes with the result: 404, or cacheDel is called
PutAfterUpdate(r) ==
    /\ req[r].kind = "put" /\ req[r].pc = "write.done"
    /\ IF NoRowReturned(req[r].rows)
       THEN /\ Reply(r, NotFound, obs[r])
            /\ obs' = Step1(r, NoObs)
       ELSE IF ~CacheDelReady
       THEN /\ Reply(r, OnCacheDelError(req[r].rows[1]),
                     Failed(obs[r], "flag", "redis.del"))
            /\ obs' = Step1(r, NoObs)
       ELSE /\ req' = [req EXCEPT ![r].pc = "cache.del"]
            /\ obs' = Step1(r, Issued(obs[r], "redis.del"))
            /\ out' = NoOut
    /\ UNCHANGED <<redisReady, listening, cache, primary, held, replica,
                   wal, nextId, now, started, lastPut>>

\* redis.del settles (ok) or fails
CacheDelIO(r, ok) ==
    /\ req[r].pc = "cache.del"
    /\ IF ~ok
       THEN /\ Reply(r, OnCacheDelError(req[r].rows[1]),
                     Failed(obs[r], "io", "redis.del"))
            /\ obs' = Step1(r, NoObs)
            /\ UNCHANGED <<cache, lastPut>>
       ELSE /\ cache' = RedisDel(cache, DelKey(req[r].id))
            /\ Reply(r, Resp(200, "", JSONStringify(req[r].rows[1])), obs[r])
            /\ obs' = [s \in Req |->
                        IF s = r THEN NoObs
                        ELSE IF PastMiss(s, req[r].id)
                                /\ obs[s].race = "committed"
                        THEN [obs[s] EXCEPT !.race = "invalidated"]
                        ELSE obs[s]]
            /\ lastPut' = obs[r].after
    /\ UNCHANGED <<redisReady, listening, primary, held, replica,
                   wal, nextId, now, started>>

\* ------------------------------------------------------- POST /products
\* the early return of the handler before its first await, if any
PostEarly(body) ==
    IF BodyInvalid(body.name, body.price_cents) THEN <<InvalidBody>> ELSE <<>>

PostStart(r, body) ==
    /\ listening /\ Free(r)
    /\ started < MaxRequests
    /\ started' = started + 1
    /\ LET early == PostEarly(body)
           o == Received({}, <<>>)
       IN  IF early # <<>>
           THEN /\ Send(r, "post", <<>>, body, early[1], o)
                /\ obs' = Arrival(r, NoObs)
           ELSE /\ req' = [req EXCEPT ![r] =
                            [IdleReq EXCEPT !.kind = "post",
                                            !.name = body.name,
                                            !.price = body.price_cents,
                                            !.pc = "write.query"]]
                /\ obs' = Arrival(r, Issued(o, "write.query"))
                /\ out' = NoOut
    /\ lastPut' = <<>>
    /\ UNCHANGED <<redisReady, listening, cache, primary, held, replica,
                   wal, nextId, now>>

\* the primary executes INSERT INTO products ... RETURNING *
InsertIO(r) ==
    /\ req[r].kind = "post" /\ req[r].pc = "write.query"
    /\ LET row == [id |-> nextId,
                   name |-> SqlText(req[r].name),
                   price_cents |-> req[r].price.n,
                   updated_at |-> now]
       IN  /\ primary' = Put(primary, row)
           /\ held' = held \cup {row}
           /\ wal' = Append(wal, row)
           /\ nextId' = nextId + 1
           /\ now' = now + 1
           /\ Reply(r, Resp(201, "", JSONStringify(PgRow(row))), obs[r])
    /\ obs' = Step1(r, NoObs)
    /\ UNCHANGED <<redisReady, listening, cache, replica, started, lastPut>>

\* ----------------------------------------------------------- GET /health
\* res.json({ ok: true, redis: redisReady })
HealthBody == << <<"ok", Bool(TRUE)>>, <<"redis", Bool(redisReady)>> >>

\* the handler has no await: it is answered in the step that receives it
HealthStart(r) ==
    /\ listening /\ Free(r)
    /\ started < MaxRequests
    /\ started' = started + 1
    /\ Send(r, "health", <<>>, Body(Undefined, Undefined),
            Resp(200, "", HealthBody), Received({}, <<>>))
    /\ obs' = Arrival(r, NoObs)
    /\ lastPut' = <<>>
    /\ UNCHANGED <<redisReady, listening, cache, primary, held, replica,
                   wal, nextId, now>>

\* --------------------------------------------------------- GET /products
\* the route is refused while redisReady is false
ListStart_Gated(r) ==
    /\ listening /\ Free(r)
    /\ started < MaxRequests
    /\ started' = started + 1
    /\ IF ~redisReady
       THEN /\ Send(r, "list", <<>>, Body(Undefined, Undefined),
                    RedisUnavailable, Received({}, <<>>))
            /\ obs' = Arrival(r, NoObs)
       ELSE /\ req' = [req EXCEPT ![r] =
                        [IdleReq EXCEPT !.kind = "list", !.pc = "list.query"]]
            /\ obs' = Arrival(r, Issued(Received({}, <<>>), QueryRead.call))
            /\ out' = NoOut
    /\ lastPut' = <<>>
    /\ UNCHANGED <<redisReady, listening, cache, primary, held, replica,
                   wal, nextId, now>>

ListStart(r) ==
    /\ listening /\ Free(r)
    /\ started < MaxRequests
    /\ started' = started + 1
    /\ req' = [req EXCEPT ![r] =
                [IdleReq EXCEPT !.kind = "list", !.pc = "list.query"]]
    /\ obs' = Arrival(r, Issued(Received({}, <<>>), QueryRead.call))
    /\ out' = NoOut
    /\ lastPut' = <<>>
    /\ UNCHANGED <<redisReady, listening, cache, primary, held, replica,
                   wal, nextId, now>>

\* res.json(r.rows): the array of the rows, each serialised as an object
JSONStringifyRows(rows) == [i \in DOMAIN rows |-> JSONStringify(rows[i])]

\* the replica executes the SELECT and the handler answers with its rows
ListIO(r) ==
    /\ req[r].pc = "list.query"
    /\ LET rs == SelectAll(QueryRead.table)
           rows == [i \in DOMAIN rs |-> PgRow(rs[i])]
       IN  Reply(r, Resp(200, "", JSONStringifyRows(rows)), obs[r])
    /\ obs' = Step1(r, NoObs)
    /\ UNCHANGED <<redisReady, listening, cache, primary, held, replica,
                   wal, nextId, now, started, lastPut>>

\* ------------------------------------------------- executor failures
\* the query of slot r fails: pool.query rejects and, no try block enclosing
\* the await, so does the promise of the async handler.  Express either
\* passes the rejection to its error handler, which answers 500 (caught), or
\* ignores the promise a handler returns: the request is never answered.
QueryRejectIO(r, caught) ==
    /\ req[r].pc \in {"read.query", "list.query", "write.query"}
    /\ Reply(r, IF caught THEN InternalError ELSE NoResp,
             Failed(obs[r], "store",
                    IF req[r].pc = "write.query" THEN "write.query"
                    ELSE "read.query"))
    /\ obs' = Step1(r, NoObs)
    /\ UNCHANGED <<redisReady, listening, cache, primary, held, replica,
                   wal, nextId, now, started, lastPut>>

\* ------------------------------------------------------------------- system
Step(r) ==
    \/ \E ok \in BOOLEAN : CacheGetIO(r, ok)
    \/ QueryReadIO(r)
    \/ GetAfterRead(r)
    \/ \E ok \in BOOLEAN : CacheSetIO(r, ok)
    \/ UpdateIO(r)
    \/ PutAfterUpdate(r)
    \/ \E ok \in BOOLEAN : CacheDelIO(r, ok)
    \/ InsertIO(r)
    \/ ListIO(r)
    \/ \E caught \in BOOLEAN : QueryRejectIO(r, caught)

Next ==
    \/ StartListening
    \/ OnReady
    \/ OnEnd
    \/ OnError
    \/ Replicate
    \/ \E key \in DOMAIN cache : Expire(key)
    \/ \E r \in Req, raw \in RawIds : GetStart(r, raw)
    \/ \E r \in Req, raw \in RawIds, body \in Bodies : PutStart(r, raw, body)
    \/ \E r \in Req, body \in Bodies : PostStart(r, body)
    \/ \E r \in Req : ListStart(r)
    \/ \E r \in Req : HealthStart(r)
    \/ \E r \in Req : Step(r)

Spec == Init /\ [][Next]_vars

\* ------------------------------------------------------- one at a time
\* no handler is running and the replica has applied every committed row
Quiet == (\A r \in Req : ~InFlight(r)) /\ wal = <<>>

\* the runs in which a request is received only when the one before it has
\* been answered and replicated, Redis stays connected once it is, and no
\* call to Redis fails
SeqNext ==
    \/ StartListening
    \/ OnReady
    \/ Replicate
    \/ \E key \in DOMAIN cache : Expire(key)
    \/ \E r \in Req, raw \in RawIds : Quiet /\ GetStart(r, raw)
    \/ \E r \in Req, raw \in RawIds, body \in Bodies :
          Quiet /\ PutStart(r, raw, body)
    \/ \E r \in Req, body \in Bodies : Quiet /\ PostStart(r, body)
    \/ \E r \in Req : Quiet /\ ListStart(r)
    \/ \E r \in Req : Quiet /\ HealthStart(r)
    \/ \E r \in Req :
          \/ CacheGetIO(r, TRUE)
          \/ QueryReadIO(r)
          \/ GetAfterRead(r)
          \/ CacheSetIO(r, TRUE)
          \/ UpdateIO(r)
          \/ PutAfterUpdate(r)
          \/ CacheDelIO(r, TRUE)
          \/ InsertIO(r)
          \/ ListIO(r)
          \/ \E caught \in BOOLEAN : QueryRejectIO(r, caught)

SeqSpec == Init /\ [][SeqNext]_vars

\* ---------------------------------------------------------------- progress
\* once MaxRequests requests have been received no write is accepted any
\* more, and reads keep coming
GetMore(r, raw) ==
    /\ started = MaxRequests
    /\ GetReceive(r, raw)
    /\ UNCHANGED started

LiveNext ==
    \/ Next
    \/ \E r \in Req, raw \in RawIds : GetMore(r, raw)

\* the keys the requests can name
Keys == {Key(ParseInt(raw)) : raw \in RawIds}

\* the event loop resumes every handler whose awaited call has settled,
\* streaming replication applies what the primary has committed, Redis
\* drops every entry whose EX has run out
Fairness ==
    /\ \A r \in Req : WF_vars(Step(r))
    /\ WF_vars(Replicate)
    /\ \A key \in Keys : WF_vars(Expire(key))

LiveSpec == Init /\ [][LiveNext]_vars /\ Fairness

\* ================================================================= claims
\* slot r takes a step of a handler that was already running
Resumes(r) == InFlight(r) /\ req'[r] # req[r]

\* the text of the primary's current row of id, as a read would return it
Current(id) == JSONStringify(PgRow(primary[id]))

\* C1: a getEntity(id) that directly follows a successful updateEntity(id),
\* both running with no other request in flight, that reads the replica
\* when it has caught up and meets no cache failure, answers 200 MISS after
\* a query of the replica, and its entity has exactly the updated attributes.
C1_ReadAfterUpdate ==
    (/\ out.kind = "get"
     /\ out.obs.after # <<>>
     /\ out.obs.live
     /\ out.obs.fault = NoFault)
    => /\ out.resp.status = 200
       /\ out.resp.xcache = "MISS"
       /\ "read.query" \in out.obs.io
       /\ Member(out.resp.body, "id") = out.obs.after[1].id
       /\ Member(out.resp.body, "name") = out.obs.after[1].name
       /\ Member(out.resp.body, "price_cents") = out.obs.after[1].price

C1_Witness ==
    /\ out.kind = "get"
    /\ out.obs.after # <<>>
    /\ out.resp.status = 200
    /\ out.resp.xcache = "MISS"
    /\ Member(out.resp.body, "name") = Str("B")

\* C2: no lock orders the requests: a request in flight can always take its
\* next step, whatever the other requests are doing.  The stale
\* repopulation is then reachable: see C2_Witness.
C2_NoLock == \A r \in Req : InFlight(r) => ENABLED Step(r)

\* a read that had missed the cache before an update of the same id
\* committed and invalidated the key has now stored the row it read: both
\* requests succeeded, the cache holds the read's row, the primary another
C2_Witness ==
    /\ out.kind = "get"
    /\ out.resp.status = 200
    /\ out.resp.xcache = "MISS"
    /\ out.obs.race = "invalidated"
    /\ LET id == ParseInt(out.raw)
       IN  /\ Key(id) \in DOMAIN cache
           /\ cache[Key(id)].value = out.resp.body
           /\ cache[Key(id)].value # Current(id.n)

\* C3: a getEntity or updateEntity received while redisReady is false is
\* answered 503 at once and has sent no call to Redis or to an executor; no
\* handler past its first await belongs to a request received that way.
C3_LivenessGate ==
    /\ \A r \in Req : InFlight(r) /\ req[r].kind \in {"get", "put"}
                        => obs[r].live
    /\ (out.kind \in {"get", "put"} /\ ~out.obs.live)
         => (out.resp = RedisUnavailable /\ out.obs.io = {})

C3_Witness ==
    /\ out.kind = "put"
    /\ ~out.obs.live
    /\ out.resp.status = 503
    /\ ParseInt(out.raw).n \in DOMAIN primary

\* a decimal numeral without sign or leading zero
WellFormedPositive(raw) ==
    /\ raw # <<>>
    /\ \A i \in DOMAIN raw : raw[i] \in Digits
    /\ raw[1] # "0"

\* the text starts, after optional blanks and one optional sign, with a digit
LeadingInteger(raw) ==
    LET a == SkipSpace(raw)
        b == IF a # <<>> /\ a[1] \in {"-", "+"} THEN Tail(a) ELSE a
    IN  b # <<>> /\ b[1] \in Digits

\* C4 as claimed: every getEntity whose id is not a well-formed positive
\* integer is answered 400 without any call, whatever redisReady is.
C4_Original ==
    /\ \A r \in Req : InFlight(r) /\ req[r].kind = "get"
                        => WellFormedPositive(req[r].raw)
    /\ (out.kind = "get" /\ ~WellFormedPositive(out.raw))
         => (out.resp = InvalidId /\ out.obs.io = {})

\* C4 as amended: with redisReady true at receipt, getEntity is answered 400
\* without any call exactly when the id has no leading integer; an id with
\* one (zero, negative, or followed by other text) goes on to the cache
\* fetch.  With redisReady false the answer is 503 whatever the id.
C4_InvalidId ==
    /\ \A r \in Req : InFlight(r) /\ req[r].kind = "get"
                        => LeadingInteger(req[r].raw)
    /\ (out.kind = "get" /\ ~out.obs.live)
         => (out.resp = RedisUnavailable /\ out.obs.io = {})
    /\ (out.kind = "get" /\ out.obs.live /\ ~LeadingInteger(out.raw))
         => (out.resp = InvalidId /\ out.obs.io = {})
    /\ (out.kind = "get" /\ out.obs.live /\ LeadingInteger(out.raw))
         => (out.resp # InvalidId /\ "redis.get" \in out.obs.io)

C4_Witness ==
    \/ /\ out.kind = "get" /\ out.obs.live /\ out.resp = InvalidId
    \/ /\ out.kind = "get" /\ out.obs.live /\ out.resp = NotFound
       /\ ParseInt(out.raw).n <= 0

\* C5: when the UPDATE of an updateEntity has returned a row and the
\* invalidation then fails (redisReady false when cacheDel is called, or
\* redis.del failing), the request is answered 503 and that step changes
\* neither the primary (no rollback) nor the cache.
C5_InvalidationFailure ==
    [][\A r \in Req :
        (/\ Resumes(r)
         /\ req[r].kind = "put"
         /\ req[r].rows # <<>>
         /\ \/ req[r].pc = "write.done" /\ ~redisReady
            \/ req[r].pc = "cache.del" /\ out'.obs.fault.why = "io")
        => /\ out'.kind = "put"
           /\ out'.resp = RedisUnavailable
           /\ out'.obs.fault.op = "redis.del"
           /\ primary' = primary
           /\ cache' = cache]_vars

\* the update is committed, the answer is 503 and the cache still holds
\* the row as it was before the update
C5_Witness ==
    /\ out.kind = "put"
    /\ out.resp.status = 503
    /\ out.obs.fault.op = "redis.del"
    /\ LET id == ParseInt(out.raw)
       IN  /\ id.n \in DOMAIN primary
           /\ Key(id) \in DOMAIN cache
           /\ primary[id.n].updated_at > 0
           /\ cache[Key(id)].value # Current(id.n)

\* C6: an updateEntity whose id has no row on the primary gets no row back
\* from its UPDATE, when it executes, which changes nothing; it is then
\* answered 404 without
\* having called cacheDel, and its steps leave the cache as it is.
C6_UpdateMissingRow ==
    [][\A r \in Req :
        (Resumes(r) /\ req[r].kind = "put")
        => /\ (/\ req[r].pc = "write.query"
                /\ req[r].id.n \notin DOMAIN primary
                /\ out'.obs.fault.why # "store")
                => /\ req'[r].pc = "write.done"
                   /\ req'[r].rows = <<>>
                   /\ primary' = primary
                   /\ cache' = cache
           /\ (req[r].pc = "write.done" /\ req[r].rows = <<>>)
                => /\ out'.resp = NotFound
                   /\ "redis.del" \notin out'.obs.io
                   /\ cache' = cache]_vars

C6_Witness ==
    /\ out.kind = "put"
    /\ out.resp = NotFound
    /\ out.obs.io = {"write.query"}

\* C7: a getEntity that missed the cache and whose id has no row on the
\* replica gets no row back from its SELECT, when it executes; it is then
\* answered 404 without having called
\* cacheSet, and its steps leave the cache as it is.
C7_ReadMissingRow ==
    [][\A r \in Req :
        (Resumes(r) /\ req[r].kind = "get")
        => /\ (/\ req[r].pc = "read.query"
                /\ req[r].id.n \notin DOMAIN replica
                /\ out'.obs.fault.why # "store")
                => /\ req'[r].pc = "read.done"
                   /\ req'[r].rows = <<>>
                   /\ cache' = cache
           /\ (req[r].pc = "read.done" /\ req[r].rows = <<>>)
                => /\ out'.resp = NotFound
                   /\ "redis.set" \notin out'.obs.io
                   /\ cache' = cache]_vars

C7_Witness ==
    /\ out.kind = "get"
    /\ out.resp = NotFound
    /\ out.obs.io = {"redis.get", "read.query"}
    /\ Key(ParseInt(out.raw)) \notin DOMAIN cache

\* C8: when the fetch of a getEntity succeeds and the key holds an entry,
\* the request is answered 200 HIT with exactly the stored text, having
\* sent nothing but the fetch, and the cache is left as it is.
C8_Hit ==
    [][\A r \in Req :
        (/\ Resumes(r)
         /\ req[r].pc = "cache.get"
         /\ Key(req[r].id) \in DOMAIN cache
         /\ out'.obs.fault = NoFault)
        => /\ out'.resp = Resp(200, "HIT", cache[Key(req[r].id)].value)
           /\ out'.obs.io = {"redis.get"}
           /\ cache' = cache]_vars

C8_Witness ==
    /\ out.kind = "get"
    /\ out.resp.status = 200
    /\ out.resp.xcache = "HIT"
    /\ out.resp.body = cache[Key(ParseInt(out.raw))].value

\* C9: when a getEntity has missed the cache and got a row from the
\* replica, and the store then fails (redisReady false when cacheSet is
\* called, or redis.set failing), the request is answered 503 with the
\* error body and no X-Cache header, and the cache is left as it is.
C9_StoreFailure ==
    [][\A r \in Req :
        (/\ Resumes(r)
         /\ req[r].kind = "get"
         /\ req[r].rows # <<>>
         /\ \/ req[r].pc = "read.done" /\ ~redisReady
            \/ req[r].pc = "cache.set" /\ out'.obs.fault.why = "io")
        => /\ out'.kind = "get"
           /\ out'.resp = RedisUnavailable
           /\ out'.resp.xcache = ""
           /\ out'.obs.fault.op = "redis.set"
           /\ cache' = cache]_vars

C9_Witness ==
    /\ out.kind = "get"
    /\ out.resp.status = 503
    /\ out.obs.fault.op = "redis.set"
    /\ "read.query" \in out.obs.io

\* C10: a call to Redis is sent only in a step that finds redisReady true;
\* a cache operation called with redisReady false fails without sending
\* its call, one whose call fails has sent it, and both are answered with
\* the same 503 response.
C10_CacheOps ==
    [][\A r \in Req :
        /\ (req'[r].pc \in {"cache.get", "cache.set", "cache.del"}
              /\ req'[r].pc # req[r].pc)
             => redisReady
        /\ (/\ Resumes(r)
            /\ req[r].pc \in {"read.done", "write.done"}
            /\ req[r].rows # <<>>
            /\ ~redisReady)
             => /\ out'.obs.fault.why = "flag"
                /\ out'.obs.io = obs[r].io
                /\ out'.resp = RedisUnavailable
        /\ (Resumes(r) /\ out'.obs.fault.why = "io")
             => /\ req[r].pc \in {"cache.get", "cache.set", "cache.del"}
                /\ out'.obs.fault.op \in out'.obs.io
                /\ out'.resp = RedisUnavailable]_vars

\* redisReady was true when the request was received and false when its
\* cache operation was called
C10_Witness ==
    /\ out.obs.live
    /\ out.obs.fault.why = "flag"
    /\ out.obs.fault.op \notin out.obs.io
    /\ out.resp = RedisUnavailable

\* an empty or missing name, or a price that is not an integer
Malformed(body) ==
    \/ body.name = Undefined
    \/ body.name = Str("")
    \/ body.price_cents.t # "number"
    \/ body.price_cents.s # ""

\* C11 as claimed: every createEntity or updateEntity with a malformed body
\* is answered 400 without any call, whatever redisReady is.
C11_Original ==
    (out.kind \in {"put", "post"} /\ Malformed(out.body))
    => (out.resp.status = 400 /\ out.obs.io = {})

\* C11 as amended: a createEntity with a malformed body is answered 400
\* whatever redisReady is; an updateEntity with a malformed body is answered
\* 400 when redisReady is true at receipt and 503 when it is false.  In all
\* these cases the request sends no call, its step leaves the primary, the
\* log shipped to the replica and the cache as they are, and no handler past
\* its first await holds a malformed body.
C11_InvalidBody ==
    [][/\ \A r \in Req :
            req'[r].kind \in {"put", "post"}
            => ~Malformed(Body(req'[r].name, req'[r].price))
       /\ (out'.kind \in {"put", "post"} /\ Malformed(out'.body))
            => /\ out'.obs.io = {}
               /\ primary' = primary /\ wal' = wal /\ cache' = cache
               /\ out'.kind = "post" => out'.resp = InvalidBody
               /\ (out'.kind = "put" /\ out'.obs.live)
                    => out'.resp = IF LeadingInteger(out'.raw)
                                   THEN InvalidBody ELSE InvalidId
               /\ (out'.kind = "put" /\ ~out'.obs.live)
                    => out'.resp = RedisUnavailable]_vars

\* an update with a fractional price and a create with no body, refused
C11_Witness ==
    \/ /\ out.kind = "put" /\ out.obs.live
       /\ out.body.price_cents = Frac(1, ".5")
       /\ out.resp = InvalidBody
    \/ /\ out.kind = "post" /\ ~out.obs.live
       /\ out.body.name = Undefined
       /\ out.resp = InvalidBody

\* the text of row h as a handler serialises it
Snapshot(h) == JSONStringify(PgRow(h))

\* C12: every value in the cache, under the key of id, and every entity a
\* getEntity(id) answers with 200 (HIT or MISS), is the complete text of one
\* row that the primary has held for that id.
C12_Snapshot ==
    /\ \A key \in DOMAIN cache :
         \E h \in held : /\ key = Key(Num(h.id))
                         /\ cache[key].value = Snapshot(h)
    /\ (out.kind = "get" /\ out.resp.status = 200)
         => \E h \in held : /\ Num(h.id) = ParseInt(out.raw)
                            /\ out.resp.body = Snapshot(h)

\* a read answered with a row the primary no longer holds, while the cache
\* still has that row
C12_Witness ==
    /\ out.kind = "get"
    /\ out.resp.status = 200
    /\ LET id == ParseInt(out.raw)
       IN  /\ out.resp.body # Current(id.n)
           /\ Key(id) \in DOMAIN cache
           /\ cache[Key(id)].value = out.resp.body
           /\ Cardinality(held) > 1

\* the calls a request can send to Redis
RedisCalls == {"redis.get", "redis.set", "redis.del"}

\* slot r receives a request that goes past its first await
Begins(r) == ~InFlight(r) /\ req'[r].pc # "idle"

\* a request is received and answered at once
Refused == req' = req /\ started' # started

\* C13: a createEntity sends no call to Redis and its steps leave the cache
\* as it is; an updateEntity sends at most one, redis.del, in its last step,
\* which can only remove the key of its id; an entry appears or changes in
\* the cache only in the store step of a getEntity that missed.
C13_WritePath ==
    [][/\ (Refused /\ out'.kind \in {"put", "post"})
            => (out'.obs.io = {} /\ cache' = cache)
       /\ \A r \in Req :
            /\ (Begins(r) /\ req'[r].kind \in {"put", "post"})
                 => (obs'[r].io = {"write.query"} /\ cache' = cache)
            /\ (Resumes(r) /\ req[r].kind = "post")
                 => /\ out'.kind = "post"
                    /\ out'.obs.io \cap RedisCalls = {}
                    /\ cache' = cache
            /\ (Resumes(r) /\ req[r].kind = "put" /\ req[r].pc # "cache.del")
                 => /\ cache' = cache
                    /\ obs[r].io \cap RedisCalls = {}
                    /\ out'.kind = "put" => out'.obs.io \cap RedisCalls = {}
                    /\ req'[r].pc = "cache.del"
                         => /\ req[r].pc = "write.done"
                            /\ obs'[r].io \cap RedisCalls = {"redis.del"}
            /\ (Resumes(r) /\ req[r].kind = "put" /\ req[r].pc = "cache.del")
                 => /\ req'[r].pc = "idle"
                    /\ out'.kind = "put"
                    /\ out'.obs.io \cap RedisCalls = {"redis.del"}
                    /\ cache' \in {cache, RedisDel(cache, Key(req[r].id))}
       /\ \A key \in DOMAIN cache' :
            (key \notin DOMAIN cache \/ cache'[key] # cache[key])
            => \E r \in Req : /\ Resumes(r)
                              /\ req[r].kind = "get"
                              /\ req[r].pc = "cache.set"
                              /\ req[r].cached = <<>>
                              /\ key = Key(req[r].id)]_vars

\* after a create, an update has succeeded: it has sent its one redis.del
\* and the key of its id is absent
C13_Witness ==
    /\ out.kind = "put"
    /\ out.resp.status = 200
    /\ out.obs.io = {"write.query", "redis.del"}
    /\ Key(ParseInt(out.raw)) \notin DOMAIN cache
    /\ nextId > 2

\* C14: a getEntity or updateEntity whose executor query fails is answered
\* with a 5xx response that is not the 503 of the cache.
C14_StoreFailure ==
    (out.kind \in {"get", "put"} /\ out.obs.fault.why = "store")
    => /\ out.resp.status \in 500..599
       /\ out.resp # RedisUnavailable

\* the JSON text of the rows of table, by ascending id
RowsText(table) ==
    LET n == Cardinality(DOMAIN table)
        ids == CHOOSE f \in [1..n -> DOMAIN table] :
                   \A i, j \in 1..n : i < j => f[i] < f[j]
    IN  [i \in 1..n |-> Snapshot(table[ids[i]])]

\* C15: whatever redisReady is, GET /health is answered 200 with the value
\* of redisReady; GET /products is never refused and, when its SELECT
\* executes, is answered 200 with the rows of the replica; POST /products
\* with a well-formed body is never refused and, when its INSERT executes,
\* adds the row to the primary and is answered 201 with it.  None of them
\* sends a call to Redis or changes the cache.
C15_CacheFreeRoutes ==
    [][/\ (Refused /\ out'.kind = "health")
            => /\ out'.resp =
                    Resp(200, "", << <<"ok", Bool(TRUE)>>,
                                     <<"redis", Bool(redisReady)>> >>)
               /\ out'.obs.io = {}
               /\ cache' = cache /\ redisReady' = redisReady
       /\ ~(Refused /\ out'.kind = "list")
       /\ (Refused /\ out'.kind = "post") => Malformed(out'.body)
       /\ \A r \in Req :
            /\ (Begins(r) /\ req'[r].kind \in {"list", "post"})
                 => (obs'[r].io \cap RedisCalls = {} /\ cache' = cache)
            /\ (/\ Resumes(r) /\ req[r].kind = "list"
                /\ out'.obs.fault.why # "store")
                 => /\ out'.resp = Resp(200, "", RowsText(replica))
                    /\ out'.obs.io \cap RedisCalls = {}
                    /\ cache' = cache
            /\ (/\ Resumes(r) /\ req[r].kind = "post"
                /\ out'.obs.fault.why # "store")
                 => /\ out'.resp.status = 201
                    /\ nextId \notin DOMAIN primary
                    /\ DOMAIN primary' = DOMAIN primary \cup {nextId}
                    /\ out'.resp.body = Snapshot(primary'[nextId])
                    /\ Str(primary'[nextId].name) = req[r].name
                    /\ Num(primary'[nextId].price_cents) = req[r].price
                    /\ out'.obs.io \cap RedisCalls = {}
                    /\ cache' = cache]_vars

\* with redisReady false at its receipt and at its answer, the list route
\* returns two rows: the seeded one and one created meanwhile
C15_Witness ==
    /\ out.kind = "list"
    /\ ~out.obs.live
    /\ ~redisReady
    /\ out.resp.status = 200
    /\ Len(out.resp.body) = 2

\* the routes that read: getEntity and the list
ReadKinds == {"get", "list"}

\* C16: no step of a getEntity or of the list route, on any path, sends a
\* query to the primary or changes what the primary holds.
C16_ReadsLeavePrimary ==
    [][/\ (Refused /\ out'.kind \in ReadKinds)
            => /\ "write.query" \notin out'.obs.io
               /\ primary' = primary /\ wal' = wal /\ nextId' = nextId
       /\ \A r \in Req :
            /\ (Begins(r) /\ req'[r].kind \in ReadKinds)
                 => /\ "write.query" \notin obs'[r].io
                    /\ primary' = primary /\ wal' = wal /\ nextId' = nextId
            /\ (Resumes(r) /\ req[r].kind \in ReadKinds)
                 => /\ "write.query" \notin obs[r].io \cup obs'[r].io
                    /\ out' # NoOut
                         => (/\ out'.kind = req[r].kind
                             /\ "write.query" \notin out'.obs.io)
                    /\ primary' = primary /\ wal' = wal
                    /\ nextId' = nextId]_vars

\* the list has been answered from the replica while the primary holds a
\* row more
C16_Witness ==
    /\ out.kind = "list"
    /\ out.resp.status = 200
    /\ out.obs.io = {"read.query"}
    /\ Len(out.resp.body) < Cardinality(DOMAIN primary)

\* C17: redisReady is false initially, and a step that changes it is a step
\* of a connection event alone: it starts no server, receives, resumes and
\* answers no request, and leaves Redis and both databases as they are.
C17_FlagWriters ==
    /\ ~redisReady
    /\ [][redisReady' # redisReady
            => /\ UNCHANGED <<listening, cache, primary, held, replica, wal,
                              nextId, now, started, req, obs, lastPut>>
               /\ out' = NoOut]_vars

\* a redis.get has failed and redisReady is still true; the server had
\* started to listen before any ready event
C17_Witness ==
    /\ out.kind = "get"
    /\ out.obs.fault = Fault("io", "redis.get")
    /\ out.resp = RedisUnavailable
    /\ redisReady

\* a getEntity answered 200 has the primary's current row of its id
Fresh ==
    (out.kind = "get" /\ out.resp.status = 200)
    => out.resp.body = Current(ParseInt(out.raw).n)

\* C18: every entry of the cache carries the configured TTL; and once no
\* write is accepted any more, with replication, the handlers in flight and
\* the expiry of entries progressing, from some moment on every getEntity
\* answered 200 has the primary's current row.
C18_BoundedStaleness ==
    /\ [](\A key \in DOMAIN cache : cache[key].EX = CACHE_TTL_SECONDS)
    /\ <>[]Fresh

\* after a create and an update have used up the writes, a read is served
\* the current row from the cache
C18_Witness ==
    /\ started = MaxRequests
    /\ nextId > 2
    /\ primary[1].updated_at > 0
    /\ out.kind = "get"
    /\ out.resp.status = 200
    /\ out.resp.xcache = "HIT"
    /\ out.resp.body = Current(1)

\* the key format: product:<id>
ProductKey(n) == "product:" \o ToString(n)

\* cache c and cache d hold the same entries under every key but key
SameButAt(c, d, key) ==
    /\ DOMAIN c \ {key} = DOMAIN d \ {key}
    /\ \A k \in DOMAIN c \ {key} : c[k] = d[k]

\* C19: every step of a getEntity(id) or updateEntity(id) leaves the
\* entries of the other keys as they are; the key a getEntity fetches and
\* stores and the key an updateEntity deletes are both product:<id>, and
\* the keys of different ids differ.
C19_KeyLocality ==
    [][\A r \in Req :
        /\ (Resumes(r) /\ req[r].kind \in {"get", "put"})
             => /\ SameButAt(cache, cache', ProductKey(req[r].id.n))
                /\ (req[r].pc = "cache.del" /\ out'.obs.fault = NoFault)
                     => /\ ProductKey(req[r].id.n) \notin DOMAIN cache'
                        /\ req[r].id.n = Member(out'.resp.body, "id").n
                /\ (req[r].pc = "cache.set" /\ out'.obs.fault = NoFault)
                     => /\ ProductKey(req[r].id.n) \in DOMAIN cache'
                        /\ cache'[ProductKey(req[r].id.n)].value
                             = out'.resp.body
                        /\ req[r].id.n = Member(out'.resp.body, "id").n
                /\ (req[r].pc = "cache.get" /\ out'.obs.fault = NoFault)
                     => (ProductKey(req[r].id.n) \in DOMAIN cache
                          <=> out'.resp.xcache = "HIT")
        /\ (Begins(r) /\ req'[r].kind \in {"get", "put"}) => cache' = cache
        /\ \A q \in Req :
             (/\ req[r].kind \in {"get", "put"}
              /\ req[q].kind \in {"get", "put"}
              /\ req[r].id # req[q].id)
             => /\ Key(req[r].id) # Key(req[q].id)
                /\ Key(req[r].id) # DelKey(req[q].id)
                /\ DelKey(req[r].id) # DelKey(req[q].id)]_vars

\* the read of the created row 2 has stored it under product:2 and the
\* entry of product:1 is still there
C19_Witness ==
    /\ out.kind = "get"
    /\ out.resp.xcache = "MISS"
    /\ out.resp.status = 200
    /\ ParseInt(out.raw) = Num(2)
    /\ DOMAIN cache = {ProductKey(1), ProductKey(2)}
    /\ cache[ProductKey(1)].value = Snapshot(SeedRow)

\* C20: in the runs of SeqSpec, whenever no request is in flight, every
\* entry of the cache is the primary's current row of the id of its key.
C20_SequentialCoherence ==
    (\A r \in Req : ~InFlight(r))
    => \A key \in DOMAIN cache :
         \E id \in DOMAIN primary : /\ key = ProductKey(id)
                                     /\ cache[key].value = Current(id)

\* an update of row 1 and then a read of it have been answered: the cache
\* holds the updated row
C20_Witness ==
    /\ \A r \in Req : ~InFlight(r)
    /\ primary[1].updated_at > 0
    /\ ProductKey(1) \in DOMAIN cache
    /\ cache[ProductKey(1)].value = Current(1)
    /\ out.kind = "get"

====
